---- MODULE Spec2Model ----
(***************************************************************************)
(* DocQA: in-memory multi-document user sessions (src/app.py,              *)
(* src/user_session.py, src/rag_session.py).                               *)
(*                                                                         *)
(* All request handlers are `async def` endpoints and the cleanup task is  *)
(* an asyncio task, so they run on one event loop: a handler is atomic     *)
(* between two of its `await`s.  The clock counts minutes and advances in  *)
(* steps of one cleanup interval.                                          *)
(***************************************************************************)
EXTENDS Integers, Sequences, FiniteSets, TLC

\* ---------------------------------------------------------------- bounds
MaxSessions == 2      \* session objects ever created (uuid4 ids, never reused)
MaxDocs     == 2      \* documents ever ingested (uuid4 ids, never reused)
MaxChunks   == 3      \* chunks of one ingested document
MaxTokens   == 3      \* chunks of one streamed model response
MaxTicks    == 4      \* cleanup intervals the clock runs for
MaxText     == 5      \* characters of a text given to split_text
MaxChars    == 3      \* largest max_chars given to split_text

\* ------------------------------------------------------ program constants
SESSION_CLEANUP_INTERVAL_SECONDS == 300
SESSION_TIMEOUT_MINUTES == 15
K_PER_DOC == 5
K_TOTAL   == 5

TickMinutes == SESSION_CLEANUP_INTERVAL_SECONDS \div 60
MaxTime     == MaxTicks * TickMinutes

SessionIds == 1..MaxSessions
DocIds     == 1..MaxDocs
Texts      == {1, 2}
Workers    == {1, 2}

\* ------------------------------------------------------------- helpers
Range(s) == {s[i] : i \in DOMAIN s}

Min(a, b) == IF a <= b THEN a ELSE b

\* a Python list given by its items: the value is built once
list(f) == <<>> \o f

\* list(dict.fromkeys(s)): first occurrences, in order
RECURSIVE dict_fromkeys(_)
dict_fromkeys(s) ==
    IF s = <<>>
    THEN <<>>
    ELSE LET h == dict_fromkeys(SubSeq(s, 1, Len(s) - 1))
         IN  IF s[Len(s)] \in Range(h) THEN h ELSE Append(h, s[Len(s)])

\* all non-empty chunk lists the splitter can hand to the handler
ChunkLists == UNION {[1..n -> Texts] : n \in 1..MaxChunks}

\* ------------------------------------------------------------ Embedder
\* SentenceTransformer.encode: a fixed function from text to vector; vectors
\* are points on a line, so distances and ties between texts exist.
NoneVec == 0

Embed(t) == 10 + 2 * t

encode(texts) == list([i \in 1..Len(texts) |-> Embed(texts[i])])

\* -------------------------------------------------------------- splitter
\* A text is a sequence of characters.  Whitespace is what \s matches,
\* Punctuation what [.!?] matches; Chars is the alphabet the texts are drawn
\* from: a letter, two kinds of whitespace and a full stop.
Whitespace  == {" ", "\n"}

Punctuation == {".", "!", "?"}

Chars       == {"a", " ", "\n", "."}

SplitTexts  == UNION {[1..n -> Chars] : n \in 0..MaxText}

\* re.sub(r'\s+', ' ', text): every run of whitespace becomes one space
RECURSIVE re_sub_whitespace(_)
re_sub_whitespace(text) ==
    IF text = <<>> THEN <<>>
    ELSE IF Head(text) \in Whitespace
    THEN IF Len(text) > 1 /\ text[2] \in Whitespace
         THEN re_sub_whitespace(Tail(text))
         ELSE <<" ">> \o re_sub_whitespace(Tail(text))
    ELSE <<Head(text)>> \o re_sub_whitespace(Tail(text))

RECURSIVE lstrip(_)
lstrip(text) ==
    IF text # <<>> /\ Head(text) \in Whitespace THEN lstrip(Tail(text)) ELSE text

RECURSIVE rstrip(_)
rstrip(text) ==
    IF text # <<>> /\ text[Len(text)] \in Whitespace
    THEN rstrip(SubSeq(text, 1, Len(text) - 1))
    ELSE text

\* str.strip()
strip(text) == lstrip(rstrip(text))

\* re.split(r'[.!?]+', text) from character i on: cur is the piece read so
\* far, in_run whether the last character read was punctuation
RECURSIVE re_split_from(_, _, _, _)
re_split_from(text, i, cur, in_run) ==
    IF i > Len(text) THEN <<cur>>
    ELSE IF text[i] \in Punctuation
    THEN IF in_run
         THEN re_split_from(text, i + 1, cur, TRUE)
         ELSE <<cur>> \o re_split_from(text, i + 1, <<>>, TRUE)
    ELSE re_split_from(text, i + 1, Append(cur, text[i]), FALSE)

re_split(text) == re_split_from(text, 1, <<>>, FALSE)

\* the loop over the sentences and the lines after it: pack sentences into
\* current_chunk while they fit, else close the chunk and start the next one
RECURSIVE pack_sentences(_, _, _, _, _)
pack_sentences(sentences, i, chunks, current_chunk, max_chars) ==
    IF i > Len(sentences)
    THEN IF current_chunk # <<>> THEN Append(chunks, strip(current_chunk)) ELSE chunks
    ELSE LET sentence == strip(sentences[i])
         IN  IF sentence = <<>>
             THEN pack_sentences(sentences, i + 1, chunks, current_chunk, max_chars)
             ELSE IF Len(current_chunk) + Len(sentence) + 1 <= max_chars
             THEN pack_sentences(sentences, i + 1, chunks,
                                 current_chunk \o <<" ">> \o sentence, max_chars)
             ELSE pack_sentences(sentences, i + 1,
                                 IF current_chunk # <<>>
                                 THEN Append(chunks, strip(current_chunk))
                                 ELSE chunks,
                                 sentence, max_chars)

\* split_text(text, max_chars)
split_text(text, max_chars) ==
    LET cleaned == strip(re_sub_whitespace(text))
    IN  IF cleaned = <<>>
        THEN <<>>
        ELSE pack_sentences(re_split(cleaned), 1, <<>>, <<>>, max_chars)

\* ------------------------------------------------------------ RAGSession
\* One ingested document: its source label, its chunk texts and the vectors
\* of its IndexFlatL2 index, both in insertion order.
RAGSession(source) == [source |-> source, chunks |-> <<>>, index |-> <<>>]

\* RAGSession.ingest that stores each distinct chunk text once
RAGSession_ingest_distinct(rag, text_chunks, embeddings) ==
    IF text_chunks = <<>>
    THEN rag
    ELSE [rag EXCEPT !.index = @ \o embeddings, !.chunks = @ \o dict_fromkeys(text_chunks)]

\* RAGSession.ingest: index.add(embeddings), then chunks.extend(text_chunks).
RAGSession_ingest(rag, text_chunks, embeddings) ==
    IF text_chunks = <<>>
    THEN rag
    ELSE [rag EXCEPT !.index = @ \o embeddings, !.chunks = @ \o text_chunks]

\* squared L2 distance of IndexFlatL2
L2(v, qv) == (v - qv) * (v - qv)

\* score = 1 / (1 + distance), kept as an exact fraction
Score(d) == [num |-> 1, den |-> 1 + d]

ScoreGT(a, b) == a.num * b.den > b.num * a.den

ScoreEQ(a, b) == a.num * b.den = b.num * a.den

\* index.search(query_embedding, k): the k nearest vector ids, nearest first.
\* FAISS leaves the order of equidistant vectors open; tie is the order taken
\* ("low": lower vector id first, "high": higher vector id first).
TieOrders == {"low", "high"}

SearchBefore(index, qv, tie, i, j) ==
    \/ L2(index[i], qv) < L2(index[j], qv)
    \/ /\ L2(index[i], qv) = L2(index[j], qv)
       /\ IF tie = "low" THEN i < j ELSE i > j

index_search(index, qv, k, tie) ==
    LET rank(i) == 1 + Cardinality({j \in DOMAIN index : SearchBefore(index, qv, tie, j, i)})
    IN  list([r \in 1..k |-> CHOOSE i \in DOMAIN index : rank(i) = r])

\* RAGSession.query: [] on an empty index, else up to min(k, ntotal) results.
\* Each result is a fresh dict {text, score}; vector_id stands for the identity
\* of that dict (the id FAISS returned for it) and is no key of it.
RAGSession_query(rag, query_text, k, tie) ==
    IF Len(rag.index) = 0
    THEN <<>>
    ELSE LET qv  == encode(<<query_text>>)[1]
             kk  == Min(k, Len(rag.index))
             ids == index_search(rag.index, qv, kk, tie)
         IN  list([r \in 1..kk |->
                [text      |-> rag.chunks[ids[r]],
                 score     |-> Score(L2(rag.index[ids[r]], qv)),
                 vector_id |-> ids[r]]])

\* ----------------------------------------------------------- UserSession
EmptyCache == [t \in {} |-> NoneVec]

\* UserSession.__init__ sets last_accessed and docs, and nothing else: the
\* object has no embedding_cache attribute.
UserSession(t) ==
    [last_accessed       |-> t,
     docs                |-> <<>>,
     has_embedding_cache |-> FALSE,
     embedding_cache     |-> EmptyCache]

\* The session object of the test suite, which does carry the attribute.
MockUserSession(t) ==
    [last_accessed       |-> t,
     docs                |-> <<>>,
     has_embedding_cache |-> TRUE,
     embedding_cache     |-> EmptyCache]

\* touch that leaves last_accessed as it was
touch_skipped(sess, t) == sess

\* touch that stores a time one sweep interval before the call
touch_stale(sess, t) == [sess EXCEPT !.last_accessed = t - TickMinutes]

touch(sess, t) == [sess EXCEPT !.last_accessed = t]

DocKeys(sess) == {sess.docs[i].doc_id : i \in DOMAIN sess.docs}

\* self.docs.get(doc_id); callers test DocKeys first (None otherwise)
get_doc(sess, doc_id) ==
    (CHOOSE e \in Range(sess.docs) : e.doc_id = doc_id).rag

\* add_doc that stores the document and does not touch
add_doc_untouched(sess, doc_id, rag, t) ==
    [sess EXCEPT !.docs =
        IF doc_id \in DocKeys(sess)
        THEN [i \in DOMAIN @ |-> IF @[i].doc_id = doc_id
                                 THEN [doc_id |-> doc_id, rag |-> rag]
                                 ELSE @[i]]
        ELSE Append(@, [doc_id |-> doc_id, rag |-> rag])]

\* add_doc that stores the document in the place of the oldest one
add_doc_over_first(sess, doc_id, rag, t) ==
    touch([sess EXCEPT !.docs =
              IF @ = <<>>
              THEN <<[doc_id |-> doc_id, rag |-> rag]>>
              ELSE <<[doc_id |-> doc_id, rag |-> rag]>> \o Tail(@)], t)

\* self.docs[doc_id] = rag_session (a dict keeps insertion order; an existing
\* key keeps its place), then touch
add_doc(sess, doc_id, rag, t) ==
    touch([sess EXCEPT !.docs =
              IF doc_id \in DocKeys(sess)
              THEN [i \in DOMAIN @ |-> IF @[i].doc_id = doc_id
                                       THEN [doc_id |-> doc_id, rag |-> rag]
                                       ELSE @[i]]
              ELSE Append(@, [doc_id |-> doc_id, rag |-> rag])], t)

\* remove_doc that deletes the oldest document of the session
remove_doc_first(sess, doc_id, t) ==
    IF doc_id \in DocKeys(sess)
    THEN touch([sess EXCEPT !.docs = Tail(@)], t)
    ELSE sess

\* del self.docs[doc_id] and touch, only when the key is there
remove_doc(sess, doc_id, t) ==
    IF doc_id \in DocKeys(sess)
    THEN touch([sess EXCEPT !.docs = SelectSeq(@, LAMBDA e : e.doc_id # doc_id)], t)
    ELSE sess

\* ------------------------------------------- ingest: caching and embedding
\* the first loop without its look into the cache: every chunk counts as new
indices_of_new_chunks_uncached(chunks, cache) == list([i \in 1..Len(chunks) |-> i])

\* positions of the chunks that are not in the session's cache
indices_of_new_chunks(chunks, cache) ==
    SelectSeq(list([i \in 1..Len(chunks) |-> i]), LAMBDA i : chunks[i] \notin DOMAIN cache)

chunks_to_encode(chunks, cache) ==
    LET idx == indices_of_new_chunks(chunks, cache)
    IN  list([j \in 1..Len(idx) |-> chunks[idx[j]]])

\* the new chunks without the dict.fromkeys pass
unique_new_chunks_repeated(chunks, cache) == chunks_to_encode(chunks, cache)

unique_new_chunks(chunks, cache) == dict_fromkeys(chunks_to_encode(chunks, cache))

\* {chunk: emb for chunk, emb in zip(keys, generated)}: a later pair wins
new_embeddings_dict(keys, generated) ==
    [t \in Range(keys) |->
        generated[CHOOSE i \in DOMAIN keys :
                      /\ keys[i] = t
                      /\ \A j \in DOMAIN keys : j > i => keys[j] # t]]

\* embedding_cache.update(new_embeddings_dict)
cache_update(cache, new) ==
    [t \in DOMAIN cache \cup DOMAIN new |-> IF t \in DOMAIN new THEN new[t] ELSE cache[t]]

\* the second loop writing at its own counter i, not at indices_of_new_chunks[i]
ordered_embeddings_unshifted(chunks, cache, new) ==
    LET enc == chunks_to_encode(chunks, cache)
    IN  list([i \in 1..Len(chunks) |->
            IF i <= Len(enc)
            THEN new[enc[i]]
            ELSE IF chunks[i] \in DOMAIN cache THEN cache[chunks[i]] ELSE NoneVec])

\* [None] * len(chunks), cached vectors filled in by the first loop and the
\* new ones written at indices_of_new_chunks by the second
ordered_embeddings(chunks, cache, new) ==
    LET idx == indices_of_new_chunks(chunks, cache)
        enc == chunks_to_encode(chunks, cache)
    IN  list([i \in 1..Len(chunks) |->
            IF \E j \in DOMAIN idx : idx[j] = i
            THEN new[enc[CHOOSE j \in DOMAIN idx : idx[j] = i]]
            ELSE IF chunks[i] \in DOMAIN cache THEN cache[chunks[i]] ELSE NoneVec])

\* ------------------------------------------------------------ query: merge
\* QueryPayload.doc_ids: Optional[List[str]] = None
NoDocIds == [given |-> FALSE, ids |-> <<>>]

DocIdsGiven(ids) == [given |-> TRUE, ids |-> ids]

\* the documents to query: all of the session's when payload.doc_ids is falsy
\* (None or an empty list), else the listed ones that exist, in the list's order
docs_to_query_items(sess, doc_ids) ==
    IF ~doc_ids.given \/ doc_ids.ids = <<>>
    THEN sess.docs
    ELSE LET known == SelectSeq(doc_ids.ids, LAMBDA d : d \in DocKeys(sess))
         IN  list([i \in 1..Len(known) |->
                      [doc_id |-> known[i], rag |-> get_doc(sess, known[i])]])

\* rag_session.query(q, k=5) of one document, each result tagged with its owner
retrieved(entry, q, tie) ==
    LET res == RAGSession_query(entry.rag, q, K_PER_DOC, tie)
    IN  list([r \in 1..Len(res) |->
            [text      |-> res[r].text,
             score     |-> res[r].score,
             doc_id    |-> entry.doc_id,
             source    |-> entry.rag.source,
             vector_id |-> res[r].vector_id]])

RECURSIVE extend_all(_)
extend_all(lists) ==
    IF lists = <<>> THEN <<>> ELSE lists[1] \o extend_all(Tail(lists))

\* a sort that puts an item in front of the items of equal score
RECURSIVE insert_desc_unstable(_, _)
insert_desc_unstable(sorted, x) ==
    IF sorted = <<>>
    THEN <<x>>
    ELSE IF ~ScoreGT(sorted[1].score, x.score)
         THEN <<x>> \o sorted
         ELSE <<sorted[1]>> \o insert_desc_unstable(Tail(sorted), x)

\* list.sort(key=score, reverse=True): a stable insertion of each item behind
\* every item whose score is not smaller
RECURSIVE insert_desc(_, _)
insert_desc(sorted, x) ==
    IF sorted = <<>>
    THEN <<x>>
    ELSE IF ScoreGT(x.score, sorted[1].score)
         THEN <<x>> \o sorted
         ELSE <<sorted[1]>> \o insert_desc(Tail(sorted), x)

RECURSIVE sort_by_score(_)
sort_by_score(items) ==
    IF items = <<>>
    THEN <<>>
    ELSE insert_desc(sort_by_score(SubSeq(items, 1, Len(items) - 1)), items[Len(items)])

\* a slice that is one item too long
top_chunks_long(all_chunks) == SubSeq(all_chunks, 1, Min(K_TOTAL + 1, Len(all_chunks)))

\* all_chunks[:5]
top_chunks(all_chunks) == SubSeq(all_chunks, 1, Min(K_TOTAL, Len(all_chunks)))

\* ------------------------------------------------------------------ state
VARIABLES
    sessions,       \* keys of the registry dict `sessions` (app.py)
    user_sessions,  \* the UserSession objects ever created, by session id
    next_session,   \* the next fresh session id
    next_doc,       \* the next fresh document id
    now,            \* datetime.datetime.now(), in minutes
    pc,             \* per worker: the request suspended at an await, if any
    resp,           \* what the step just taken returned to its caller
    touched_at,     \* per session object: when a touching call last ran on it
    enc_calls,      \* per session object: the texts its ingests passed to encode
    enc_done,       \* per session object: the texts an encode call returned for
    stream          \* the StreamingResponse being sent, and the events it has sent

vars == <<sessions, user_sessions, next_session, next_doc, now, pc, resp,
          touched_at, enc_calls, enc_done, stream>>

\* no streaming response has been started
NoStream ==
    [phase |-> "none", sid |-> 0, sources |-> <<>>, context |-> <<>>,
     generate |-> "not_called", script |-> <<>>, pos |-> 0, events |-> <<>>]

\* a request handler or the cleanup task: where it is (state), what it runs
\* (op), the session and document ids it was called with, what an ingest
\* carries (kind), and whether it is inside a 'with _session_lock' block
Idle == [state |-> "idle", op |-> "none", sid |-> 0, doc_id |-> 0, kind |-> "none",
         lock |-> FALSE]

NoResp ==
    [op |-> "none", sid |-> 0, status |-> 0, doc_id |-> 0, doc_ids |-> NoDocIds,
     encode_called |-> FALSE, encoded |-> <<>>,
     per_doc |-> <<>>, sources |-> <<>>, context |-> <<>>,
     generate |-> "not_called", answer |-> "none", removed |-> {},
     active |-> FALSE, remaining |-> 0, last_before |-> 0, num_chunks |-> 0,
     args |-> <<>>, result |-> <<>>]

Response(op, sid, status) == [NoResp EXCEPT !.op = op, !.sid = sid, !.status = status]

NoCalls == {}

\* the registry is empty when the application starts
Init ==
    /\ sessions = {}
    /\ user_sessions = <<>>
    /\ next_session = 1
    /\ next_doc = 1
    /\ now = 0
    /\ pc = [w \in Workers |-> Idle]
    /\ resp = NoResp
    /\ touched_at = <<>>
    /\ enc_calls = <<>>
    /\ enc_done = <<>>
    /\ stream = NoStream

\* the registry holds one session that carries an embedding_cache attribute
InitCached ==
    LET k == 1
    IN  /\ sessions = 1..k
        /\ user_sessions = [s \in 1..k |-> MockUserSession(0)]
        /\ next_session = k + 1
        /\ next_doc = 1
        /\ now = 0
        /\ pc = [w \in Workers |-> Idle]
        /\ resp = NoResp
        /\ touched_at = [s \in 1..k |-> 0]
        /\ enc_calls = [s \in 1..k |-> NoCalls]
        /\ enc_done = [s \in 1..k |-> NoCalls]
        /\ stream = NoStream

\* --------------------------------------------------------------- actions
\* the clock advances by one cleanup interval
Tick ==
    /\ now + TickMinutes <= MaxTime
    /\ now' = now + TickMinutes
    /\ resp' = NoResp
    /\ UNCHANGED <<sessions, user_sessions, next_session, next_doc, pc, stream,
                   touched_at, enc_calls, enc_done>>

\* expiry at the timeout itself
ExpiredAtTimeout(sess, t) == t - sess.last_accessed >= SESSION_TIMEOUT_MINUTES

\* now - session.last_accessed > expiration_time
Expired(sess, t) == t - sess.last_accessed > SESSION_TIMEOUT_MINUTES

\* a sweep that deletes nothing
clean_sessions_never ==
    /\ resp' = [Response("clean_sessions_once", 0, 0) EXCEPT !.removed = {}]
    /\ UNCHANGED <<sessions, user_sessions, next_session, next_doc, now, pc, stream,
                   touched_at, enc_calls, enc_done>>

\* _clean_sessions_once: under the lock, collect the expired ids and delete them
clean_sessions_once ==
    LET expired_ids == {s \in sessions : Expired(user_sessions[s], now)}
    IN  /\ sessions' = sessions \ expired_ids
        /\ resp' = [Response("clean_sessions_once", 0, 0) EXCEPT !.removed = expired_ids]
        /\ UNCHANGED <<user_sessions, next_session, next_doc, now, pc, stream,
                       touched_at, enc_calls, enc_done>>

\* POST /sessions
create_session ==
    /\ next_session <= MaxSessions
    /\ sessions' = sessions \cup {next_session}
    /\ user_sessions' = Append(user_sessions, UserSession(now))
    /\ next_session' = next_session + 1
    /\ touched_at' = Append(touched_at, now)
    /\ enc_calls' = Append(enc_calls, NoCalls)
    /\ enc_done' = Append(enc_done, NoCalls)
    /\ resp' = Response("create_session", next_session, 200)
    /\ UNCHANGED <<next_doc, now, pc, stream>>

\* POST /sessions/{id}/ingest, up to its first await: the lookup under the lock
\* (404), then the handler awaits the request body, the upload or the URL fetch.
\* kind: what the request carries ("none": neither a file nor a URL).
IngestKinds == {"none", "file", "url"}

\* a request that carries a file and names a URL as well: the handler reads the
\* URL only 'if not file', so it goes on with the file
IngestKindsBoth == IngestKinds \cup {"both"}

ingest_start(w, sid, kind) ==
    /\ pc[w].state = "idle"
    /\ IF sid \notin sessions
       THEN /\ resp' = Response("ingest", sid, 404)
            /\ pc' = pc
       ELSE /\ resp' = NoResp
            /\ pc' = [pc EXCEPT ![w] = [Idle EXCEPT !.state = "ingest", !.op = "ingest",
                                                    !.sid = sid, !.kind = kind]]
    /\ UNCHANGED <<sessions, user_sessions, next_session, next_doc, now, stream,
                   touched_at, enc_calls, enc_done>>

\* what the collaborators do to one ingest
IngestOutcomes == {"fetch_error", "loader_error", "empty_text", "no_chunks", "ok"}

\* ingest after the await, to its return.  The handler still holds the session
\* object it looked up; nothing below awaits.
ingest_finish(w, outcome, chunks, embed_ok, index_ok) ==
    LET sid   == pc[w].sid
        kind  == pc[w].kind
        sess  == user_sessions[sid]
        cache == sess.embedding_cache
        enc   == chunks_to_encode(chunks, cache)
        uniq  == unique_new_chunks(chunks, cache)
        calls == enc # <<>>
        new   == IF calls THEN new_embeddings_dict(uniq, encode(uniq)) ELSE EmptyCache
        cached == IF calls THEN [sess EXCEPT !.embedding_cache = cache_update(cache, new)]
                  ELSE sess
        all_embeddings == ordered_embeddings(chunks, cache, new)
        source == IF kind = "both" THEN "file" ELSE kind
        rag   == RAGSession_ingest(RAGSession(source), chunks, all_embeddings)
        count(c) == [c EXCEPT ![sid] = IF calls THEN @ \cup Range(uniq) ELSE @]
        fail(status) ==
            /\ resp' = Response("ingest", sid, status)
            /\ UNCHANGED <<user_sessions, next_doc, touched_at, enc_calls, enc_done>>
    IN  /\ pc[w].state = "ingest"
        /\ pc' = [pc EXCEPT ![w] = Idle]
        /\ UNCHANGED <<sessions, next_session, now, stream>>
        /\ IF kind = "none" THEN fail(400)
           ELSE IF kind = "url" /\ outcome = "fetch_error" THEN fail(500)
           ELSE IF outcome \in {"loader_error", "empty_text", "no_chunks"} THEN fail(400)
           ELSE IF ~sess.has_embedding_cache
           THEN \* user_session.embedding_cache: AttributeError
                fail(500)
           ELSE IF calls /\ ~embed_ok
           THEN /\ resp' = [Response("ingest", sid, 500) EXCEPT
                               !.encode_called = TRUE, !.encoded = uniq]
                /\ enc_calls' = count(enc_calls)
                /\ UNCHANGED <<user_sessions, next_doc, touched_at, enc_done>>
           ELSE IF ~index_ok
           THEN /\ resp' = [Response("ingest", sid, 500) EXCEPT
                               !.encode_called = calls,
                               !.encoded = IF calls THEN uniq ELSE <<>>]
                /\ user_sessions' = [user_sessions EXCEPT ![sid] = cached]
                /\ enc_calls' = count(enc_calls)
                /\ enc_done' = count(enc_done)
                /\ UNCHANGED <<next_doc, touched_at>>
           ELSE /\ next_doc <= MaxDocs
                /\ resp' = [Response("ingest", sid, 200) EXCEPT
                               !.doc_id = next_doc, !.num_chunks = Len(chunks),
                               !.encode_called = calls,
                               !.encoded = IF calls THEN uniq ELSE <<>>]
                /\ user_sessions' = [user_sessions EXCEPT
                                        ![sid] = add_doc(cached, next_doc, rag, now)]
                /\ next_doc' = next_doc + 1
                /\ touched_at' = [touched_at EXCEPT ![sid] = now]
                /\ enc_calls' = count(enc_calls)
                /\ enc_done' = count(enc_done)

\* the document id lists a caller can send: known and unknown ids, repeats
DocIdLists == UNION {[1..n -> 1..(MaxDocs + 1)] : n \in {0, 1, 2}}

Queries == Texts

\* a query that answers 200 with an empty answer when the model raises
query_response_swallowing(sid, sess, q, doc_ids, tie, llm_ok) ==
    LET items   == docs_to_query_items(sess, doc_ids)
        per_doc == list([i \in 1..Len(items) |-> retrieved(items[i], q, tie)])
        top     == top_chunks(sort_by_score(extend_all(per_doc)))
        texts   == list([i \in 1..Len(top) |-> top[i].text])
        answered == [Response("query", sid, 200) EXCEPT
                        !.doc_ids = doc_ids,
                        !.per_doc = per_doc, !.sources = top, !.context = texts]
    IN  IF texts = <<>>
        THEN [answered EXCEPT !.answer = "No relevant information found."]
        ELSE IF llm_ok
        THEN [answered EXCEPT !.generate = "returned", !.answer = "llm"]
        ELSE [answered EXCEPT !.generate = "raised", !.answer = ""]

\* query, from the touch to the response: retrieval over the documents to
\* query, the merge, and the answer of generate_rag_response with stream off.
\* generate: what the one call of llm_model.generate_content did, if made.
query_response(sid, sess, q, doc_ids, tie, llm_ok) ==
    LET items   == docs_to_query_items(sess, doc_ids)
        per_doc == list([i \in 1..Len(items) |-> retrieved(items[i], q, tie)])
        top     == top_chunks(sort_by_score(extend_all(per_doc)))
        texts   == list([i \in 1..Len(top) |-> top[i].text])
        answered == [Response("query", sid, 200) EXCEPT
                        !.doc_ids = doc_ids,
                        !.per_doc = per_doc, !.sources = top, !.context = texts]
    IN  IF texts = <<>>
        THEN [answered EXCEPT !.answer = "No relevant information found."]
        ELSE IF llm_ok
        THEN [answered EXCEPT !.generate = "returned", !.answer = "llm"]
        ELSE [answered EXCEPT !.status = 500, !.sources = <<>>,
                              !.generate = "raised", !.answer = "none"]

\* a query that answers from the first session object, whatever id was asked
query_first_session(sid, q, doc_ids, tie, llm_ok) ==
    IF sid \notin sessions
    THEN /\ resp' = Response("query", sid, 404)
         /\ UNCHANGED <<sessions, user_sessions, next_session, next_doc, now, pc, stream,
                         touched_at, enc_calls, enc_done>>
    ELSE /\ user_sessions' = [user_sessions EXCEPT ![sid] = touch(@, now)]
         /\ touched_at' = [touched_at EXCEPT ![sid] = now]
         /\ resp' = query_response(sid, touch(user_sessions[1], now),
                                   q, doc_ids, tie, llm_ok)
         /\ UNCHANGED <<sessions, next_session, next_doc, now, pc, stream,
                         enc_calls, enc_done>>

\* a query that looks the session up among the session objects ever made
query_unchecked(sid, q, doc_ids, tie, llm_ok) ==
    IF sid \notin DOMAIN user_sessions
    THEN /\ resp' = Response("query", sid, 404)
         /\ UNCHANGED <<sessions, user_sessions, next_session, next_doc, now, pc, stream,
                        touched_at, enc_calls, enc_done>>
    ELSE /\ user_sessions' = [user_sessions EXCEPT ![sid] = touch(@, now)]
         /\ touched_at' = [touched_at EXCEPT ![sid] = now]
         /\ resp' = query_response(sid, touch(user_sessions[sid], now),
                                   q, doc_ids, tie, llm_ok)
         /\ UNCHANGED <<sessions, next_session, next_doc, now, pc, stream,
                        enc_calls, enc_done>>

\* a query that forgets the documents of the session when the model fails
query_dropping(sid, q, doc_ids, tie, llm_ok) ==
    IF sid \notin sessions
    THEN /\ resp' = Response("query", sid, 404)
         /\ UNCHANGED <<sessions, user_sessions, next_session, next_doc, now, pc, stream,
                        touched_at, enc_calls, enc_done>>
    ELSE /\ user_sessions' = [user_sessions EXCEPT ![sid] =
                                 IF llm_ok THEN touch(@, now)
                                 ELSE [touch(@, now) EXCEPT !.docs = <<>>]]
         /\ touched_at' = [touched_at EXCEPT ![sid] = now]
         /\ resp' = query_response(sid, touch(user_sessions[sid], now),
                                   q, doc_ids, tie, llm_ok)
         /\ UNCHANGED <<sessions, next_session, next_doc, now, pc, stream,
                        enc_calls, enc_done>>

\* POST /sessions/{id}/query with stream off; nothing in it awaits
query(sid, q, doc_ids, tie, llm_ok) ==
    IF sid \notin sessions
    THEN /\ resp' = Response("query", sid, 404)
         /\ UNCHANGED <<sessions, user_sessions, next_session, next_doc, now, pc, stream,
                        touched_at, enc_calls, enc_done>>
    ELSE /\ user_sessions' = [user_sessions EXCEPT ![sid] = touch(@, now)]
         /\ touched_at' = [touched_at EXCEPT ![sid] = now]
         /\ resp' = query_response(sid, touch(user_sessions[sid], now),
                                   q, doc_ids, tie, llm_ok)
         /\ UNCHANGED <<sessions, next_session, next_doc, now, pc, stream,
                        enc_calls, enc_done>>

\* ------------------------------------------------------ query: streaming
\* what the language model does to one streamed generation, chunk by chunk:
\* a chunk with text, a chunk whose text is empty, or an exception raised by
\* generate_content or by the iteration in place of that chunk
GenChunks == {"text", "empty", "raise"}

GenScripts == UNION {[1..n -> GenChunks] : n \in 0..MaxTokens}

\* generate_rag_response without context: the one token 'No relevant
\* information found.', and the model is not called
NoContext == <<"text">>

\* one server-sent event; token: the position in the model's response of the
\* chunk a token event carries
Event(type, token) == [type |-> type, token |-> token]

\* the next chunk generate_rag_response stops at, after chunk pos: the first
\* one that has text or raises, 0 when the response has no such chunk left
NextChunk(script, pos) ==
    IF \E n \in (pos + 1)..Len(script) : script[n] # "empty"
    THEN CHOOSE n \in (pos + 1)..Len(script) :
             /\ script[n] # "empty"
             /\ \A k \in (pos + 1)..(n - 1) : script[k] = "empty"
    ELSE 0

\* stream_generator with its first and its last yield exchanged
stream_generator_swapped(st) ==
    IF st.phase = "sources"
    THEN [st EXCEPT !.phase = "tokens", !.events = Append(@, Event("end", 0))]
    ELSE IF st.phase = "ending"
    THEN [st EXCEPT !.phase = "done", !.events = Append(@, Event("sources", 0))]
    ELSE LET n == NextChunk(st.script, st.pos)
         IN  IF n = 0
             THEN [st EXCEPT !.phase = "done", !.pos = Len(st.script),
                             !.events = Append(@, Event("sources", 0))]
             ELSE IF st.script[n] = "raise"
             THEN [st EXCEPT !.phase = "ending", !.pos = n,
                             !.events = Append(@, Event("error", 0))]
             ELSE [st EXCEPT !.pos = n, !.events = Append(@, Event("token", n))]

\* generate_rag_response with the try inside the loop: it goes on after an error
stream_generator_resuming(st) ==
    IF st.phase = "sources"
    THEN [st EXCEPT !.phase = "tokens", !.events = Append(@, Event("sources", 0))]
    ELSE IF st.phase = "ending"
    THEN [st EXCEPT !.phase = "done", !.events = Append(@, Event("end", 0))]
    ELSE LET n == NextChunk(st.script, st.pos)
         IN  IF n = 0
             THEN [st EXCEPT !.phase = "done", !.pos = Len(st.script),
                             !.events = Append(@, Event("end", 0))]
             ELSE IF st.script[n] = "raise"
             THEN [st EXCEPT !.pos = n, !.events = Append(@, Event("error", 0))]
             ELSE [st EXCEPT !.pos = n, !.events = Append(@, Event("token", n))]

\* stream_generator, from one yield to the next: the sources event; then one
\* token event per chunk with text that generate_rag_response yields, or its
\* one error event when the model raises, after which it returns; then the
\* end event
stream_generator(st) ==
    IF st.phase = "sources"
    THEN [st EXCEPT !.phase = "tokens", !.events = Append(@, Event("sources", 0))]
    ELSE IF st.phase = "ending"
    THEN [st EXCEPT !.phase = "done", !.events = Append(@, Event("end", 0))]
    ELSE LET n == NextChunk(st.script, st.pos)
         IN  IF n = 0
             THEN [st EXCEPT !.phase = "done", !.pos = Len(st.script),
                             !.events = Append(@, Event("end", 0))]
             ELSE IF st.script[n] = "raise"
             THEN [st EXCEPT !.phase = "ending", !.pos = n,
                             !.events = Append(@, Event("error", 0))]
             ELSE [st EXCEPT !.pos = n, !.events = Append(@, Event("token", n))]

\* a streaming query that hands an empty context to the model as well
query_stream_calling(sid, q, doc_ids, tie, script) ==
    /\ stream.phase \in {"none", "done", "closed"}
    /\ IF sid \notin sessions
       THEN /\ resp' = Response("query_stream", sid, 404)
            /\ UNCHANGED <<sessions, user_sessions, next_session, next_doc, now, pc,
                           stream, touched_at, enc_calls, enc_done>>
       ELSE LET merged == query_response(sid, touch(user_sessions[sid], now),
                                         q, doc_ids, tie, TRUE)
            IN  /\ user_sessions' = [user_sessions EXCEPT ![sid] = touch(@, now)]
                /\ touched_at' = [touched_at EXCEPT ![sid] = now]
                /\ resp' = [merged EXCEPT !.op = "query_stream",
                                          !.generate = "not_called", !.answer = "none"]
                /\ stream' = [phase    |-> "sources",
                              sid      |-> sid,
                              sources  |-> merged.sources,
                              context  |-> merged.context,
                              generate |-> "called",
                              script   |-> script,
                              pos      |-> 0,
                              events   |-> <<>>]
                /\ UNCHANGED <<sessions, next_session, next_doc, now, pc,
                               enc_calls, enc_done>>

\* POST /sessions/{id}/query with stream on: the lookup, the touch and the
\* merge as without streaming, then the StreamingResponse is returned; its
\* events are sent by the steps that follow.  One response streams at a time.
\* context: the texts handed to generate_rag_response; generate: whether that
\* generator calls the model (it does not when the context is empty).
query_stream(sid, q, doc_ids, tie, script) ==
    /\ stream.phase \in {"none", "done", "closed"}
    /\ IF sid \notin sessions
       THEN /\ resp' = Response("query_stream", sid, 404)
            /\ UNCHANGED <<sessions, user_sessions, next_session, next_doc, now, pc,
                           stream, touched_at, enc_calls, enc_done>>
       ELSE LET merged == query_response(sid, touch(user_sessions[sid], now),
                                         q, doc_ids, tie, TRUE)
            IN  /\ user_sessions' = [user_sessions EXCEPT ![sid] = touch(@, now)]
                /\ touched_at' = [touched_at EXCEPT ![sid] = now]
                /\ resp' = [merged EXCEPT !.op = "query_stream",
                                          !.generate = "not_called", !.answer = "none"]
                /\ stream' = [phase    |-> "sources",
                              sid      |-> sid,
                              sources  |-> merged.sources,
                              context  |-> merged.context,
                              generate |-> IF merged.context = <<>>
                                           THEN "not_called" ELSE "called",
                              script   |-> IF merged.context = <<>> THEN NoContext
                                           ELSE script,
                              pos      |-> 0,
                              events   |-> <<>>]
                /\ UNCHANGED <<sessions, next_session, next_doc, now, pc,
                               enc_calls, enc_done>>

\* the response body is sent up to the next yield of stream_generator
stream_step ==
    /\ stream.phase \in {"sources", "tokens", "ending"}
    /\ stream' = stream_generator(stream)
    /\ resp' = NoResp
    /\ UNCHANGED <<sessions, user_sessions, next_session, next_doc, now, pc,
                   touched_at, enc_calls, enc_done>>

\* the caller stops consuming the response; the generator is closed
stream_close ==
    /\ stream.phase \in {"sources", "tokens", "ending"}
    /\ stream' = [stream EXCEPT !.phase = "closed"]
    /\ resp' = NoResp
    /\ UNCHANGED <<sessions, user_sessions, next_session, next_doc, now, pc,
                   touched_at, enc_calls, enc_done>>

\* --------------------------------------- query: the text of the answer
\* The response of the model as texts: the chunks of a streamed response, whose
\* concatenation is the text of the same response when it is not streamed.
\* A text is a sequence of characters, here a letter and a space.
ChunkTexts == UNION {[1..n -> {"a", " "}] : n \in 0..2}

ModelResponses == UNION {[1..n -> ChunkTexts] : n \in 0..MaxTokens}

\* 'if chunk.text:' a chunk without text is passed over
script_of(chunks) ==
    list([i \in 1..Len(chunks) |-> IF chunks[i] = <<>> THEN "empty" ELSE "text"])

\* response.text
RECURSIVE response_text(_)
response_text(chunks) ==
    IF chunks = <<>> THEN <<>> ELSE Head(chunks) \o response_text(Tail(chunks))

\* the text generate_rag_response yields without context
CannedAnswer == <<"No relevant information found.">>

\* generate_rag_response with stream off, the model not failing: the canned
\* text without context, else response.text.strip()
answer_text(context, chunks) ==
    IF context = <<>> THEN CannedAnswer ELSE strip(response_text(chunks))

\* the response body read to its end: stream_generator from its first yield
\* to its return
RECURSIVE stream_run(_)
stream_run(st) ==
    IF st.phase = "done" THEN st ELSE stream_run(stream_generator(st))

\* the texts of the token events of a stream, in the order sent
token_texts(st, chunks) ==
    LET tokens == SelectSeq(st.events, LAMBDA e : e.type = "token")
    IN  list([i \in 1..Len(tokens) |->
                 IF st.context = <<>> THEN CannedAnswer ELSE chunks[tokens[i].token]])

\* what the two modes delivered for one question
NoModes ==
    [plain_done  |-> FALSE, sources        |-> <<>>, answer        |-> <<>>,
     stream_done |-> FALSE, stream_sources |-> <<>>, stream_tokens |-> <<>>]

\* POST /sessions/{id}/query with stream off, the model answering with the
\* response of args
query_plain ==
    /\ resp.op = "modes"
    /\ ~resp.result.plain_done
    /\ LET sid    == resp.sid
           merged == query_response(sid, touch(user_sessions[sid], now), 1,
                                    resp.args.doc_ids, "low", TRUE)
       IN  /\ user_sessions' = [user_sessions EXCEPT ![sid] = touch(@, now)]
           /\ touched_at' = [touched_at EXCEPT ![sid] = now]
           /\ resp' = [resp EXCEPT
                          !.result.plain_done = TRUE,
                          !.result.sources = merged.sources,
                          !.result.answer = answer_text(merged.context, resp.args.chunks)]
    /\ UNCHANGED <<sessions, next_session, next_doc, now, pc, stream, enc_calls, enc_done>>

\* the same with stream on, the response body read to its end
query_streamed ==
    /\ resp.op = "modes"
    /\ ~resp.result.stream_done
    /\ LET sid    == resp.sid
           merged == query_response(sid, touch(user_sessions[sid], now), 1,
                                    resp.args.doc_ids, "low", TRUE)
           sent   == stream_run([phase    |-> "sources",
                                 sid      |-> sid,
                                 sources  |-> merged.sources,
                                 context  |-> merged.context,
                                 generate |-> IF merged.context = <<>>
                                              THEN "not_called" ELSE "called",
                                 script   |-> IF merged.context = <<>> THEN NoContext
                                              ELSE script_of(resp.args.chunks),
                                 pos      |-> 0,
                                 events   |-> <<>>])
       IN  /\ user_sessions' = [user_sessions EXCEPT ![sid] = touch(@, now)]
           /\ touched_at' = [touched_at EXCEPT ![sid] = now]
           /\ stream' = sent
           /\ resp' = [resp EXCEPT
                          !.result.stream_done = TRUE,
                          !.result.stream_sources = sent.sources,
                          !.result.stream_tokens = token_texts(sent, resp.args.chunks)]
    /\ UNCHANGED <<sessions, next_session, next_doc, now, pc, enc_calls, enc_done>>

\* DELETE /sessions/{id}/documents/{doc_id}
delete_document(sid, doc_id) ==
    /\ UNCHANGED <<sessions, next_session, next_doc, now, pc, stream, enc_calls, enc_done>>
    /\ IF sid \notin sessions
       THEN /\ resp' = Response("delete_document", sid, 404)
            /\ UNCHANGED <<user_sessions, touched_at>>
       ELSE IF doc_id \notin DocKeys(user_sessions[sid])
       THEN /\ resp' = [Response("delete_document", sid, 404) EXCEPT !.doc_id = doc_id]
            /\ UNCHANGED <<user_sessions, touched_at>>
       ELSE /\ resp' = [Response("delete_document", sid, 204) EXCEPT !.doc_id = doc_id]
            /\ user_sessions' = [user_sessions EXCEPT
                                    ![sid] = remove_doc(user_sessions[sid], doc_id, now)]
            /\ touched_at' = [touched_at EXCEPT ![sid] = now]

\* ------------------------------------------------------- session health
\* session health that answers an expired session as it answers an unknown one
session_health_check_unknown(sid) ==
    /\ resp' = Response("session_health_check", sid,
                        IF sid \notin sessions \/ Expired(user_sessions[sid], now)
                        THEN 404 ELSE 200)
    /\ UNCHANGED <<sessions, user_sessions, next_session, next_doc, now, pc, stream,
                   touched_at, enc_calls, enc_done>>

\* session health: 404 for an id that is not in the registry, 410 for a
\* session of the registry that is past the timeout, 200 otherwise; it reads
\* last_accessed and writes nothing
session_health_check(sid) ==
    /\ resp' = Response("session_health_check", sid,
                        IF sid \notin sessions THEN 404
                        ELSE IF Expired(user_sessions[sid], now) THEN 410
                        ELSE 200)
    /\ UNCHANGED <<sessions, user_sessions, next_session, next_doc, now, pc, stream,
                   touched_at, enc_calls, enc_done>>

\* ------------------------------------------- session status and refresh
\* minutes left before the session is past its timeout
remaining_time(sess, t) == SESSION_TIMEOUT_MINUTES - (t - sess.last_accessed)

\* session status that answers an unknown id with 404
get_session_status_strict(sid) ==
    /\ resp' = IF sid \notin sessions
               THEN Response("get_session_status", sid, 404)
               ELSE IF remaining_time(user_sessions[sid], now) <= 0
               THEN Response("get_session_status", sid, 200)
               ELSE [Response("get_session_status", sid, 200) EXCEPT
                        !.active = TRUE,
                        !.remaining = remaining_time(user_sessions[sid], now)]
    /\ UNCHANGED <<sessions, user_sessions, next_session, next_doc, now, pc, stream,
                   touched_at, enc_calls, enc_done>>

\* session status: always 200; inactive, without a remaining time, for an id
\* that is not in the registry and for a session with no time left; active
\* with the time left otherwise.  It reads last_accessed and writes nothing.
get_session_status(sid) ==
    /\ resp' = IF sid \notin sessions
               THEN Response("get_session_status", sid, 200)
               ELSE IF remaining_time(user_sessions[sid], now) <= 0
               THEN Response("get_session_status", sid, 200)
               ELSE [Response("get_session_status", sid, 200) EXCEPT
                        !.active = TRUE,
                        !.remaining = remaining_time(user_sessions[sid], now)]
    /\ UNCHANGED <<sessions, user_sessions, next_session, next_doc, now, pc, stream,
                   touched_at, enc_calls, enc_done>>

\* refresh that turns away a session past its timeout, as health does
refresh_session_gone(sid) ==
    IF sid \notin sessions \/ Expired(user_sessions[sid], now)
    THEN /\ resp' = Response("refresh_session", sid,
                             IF sid \notin sessions THEN 404 ELSE 410)
         /\ UNCHANGED <<sessions, user_sessions, next_session, next_doc, now, pc, stream,
                        touched_at, enc_calls, enc_done>>
    ELSE /\ resp' = [Response("refresh_session", sid, 200) EXCEPT
                        !.last_before = user_sessions[sid].last_accessed]
         /\ user_sessions' = [user_sessions EXCEPT ![sid] = touch(@, now)]
         /\ touched_at' = [touched_at EXCEPT ![sid] = now]
         /\ UNCHANGED <<sessions, next_session, next_doc, now, pc, stream,
                        enc_calls, enc_done>>

\* refresh: 404 for an id that is not in the registry; otherwise touch and 200,
\* whatever the age of the session.  last_before: last_accessed before the call.
refresh_session(sid) ==
    IF sid \notin sessions
    THEN /\ resp' = Response("refresh_session", sid, 404)
         /\ UNCHANGED <<sessions, user_sessions, next_session, next_doc, now, pc, stream,
                        touched_at, enc_calls, enc_done>>
    ELSE /\ resp' = [Response("refresh_session", sid, 200) EXCEPT
                        !.last_before = user_sessions[sid].last_accessed]
         /\ user_sessions' = [user_sessions EXCEPT ![sid] = touch(@, now)]
         /\ touched_at' = [touched_at EXCEPT ![sid] = now]
         /\ UNCHANGED <<sessions, next_session, next_doc, now, pc, stream,
                        enc_calls, enc_done>>

\* ----------------------------------------------------- the registry lock
\* The handlers and the cleanup task, step by step around _session_lock: a
\* step that enters the 'with' block, a step that runs the block, leaves it
\* and goes on to the first delegated call or to the return, and a step in
\* which the delegated calls return and the handler finishes.
LockOps == {"create_session", "ingest", "query", "delete_document", "clean_sessions_once"}

\* threading.Lock: held by at most one
LockFree == \A v \in Workers : ~pc[v].lock

\* the with block is entered: _session_lock.acquire()
lock_acquire(w, op, sid, doc_id) ==
    /\ pc[w].state = "idle"
    /\ LockFree
    /\ op = "create_session" => next_session <= MaxSessions
    /\ pc' = [pc EXCEPT ![w] = [state |-> "locked", op |-> op, sid |-> sid,
                                doc_id |-> doc_id, kind |-> "file", lock |-> TRUE]]
    /\ resp' = NoResp
    /\ UNCHANGED <<sessions, user_sessions, next_session, next_doc, now, stream,
                   touched_at, enc_calls, enc_done>>

\* a handler that goes into its delegated calls without leaving the with block
after_lookup_locked(w, state) == [pc[w] EXCEPT !.state = state, !.lock = TRUE]

\* the handler after 'with _session_lock: user_session = sessions.get(...)':
\* the block is left, the lock released, before anything else is called
after_lookup(w, state) == [pc[w] EXCEPT !.state = state, !.lock = FALSE]

\* the with block runs and is left; the handler goes on to its first
\* delegated call ("ingest": the body read, the URL fetch, the Loader and the
\* Embedder; "generate": the Embedder for the query and the Generator) or to
\* its return
lock_release(w) ==
    LET op  == pc[w].op
        sid == pc[w].sid
        return(r) == /\ resp' = r
                     /\ pc' = [pc EXCEPT ![w] = Idle]
    IN  /\ pc[w].state = "locked"
        /\ UNCHANGED <<next_doc, now, stream>>
        /\ IF op = "create_session"
           THEN /\ sessions' = sessions \cup {next_session}
                /\ user_sessions' = Append(user_sessions, UserSession(now))
                /\ next_session' = next_session + 1
                /\ touched_at' = Append(touched_at, now)
                /\ enc_calls' = Append(enc_calls, NoCalls)
                /\ enc_done' = Append(enc_done, NoCalls)
                /\ return(Response("create_session", next_session, 200))
           ELSE IF op = "clean_sessions_once"
           THEN LET expired_ids == {s \in sessions : Expired(user_sessions[s], now)}
                IN  /\ sessions' = sessions \ expired_ids
                    /\ return([Response("clean_sessions_once", 0, 0) EXCEPT
                                   !.removed = expired_ids])
                    /\ UNCHANGED <<user_sessions, next_session, touched_at,
                                   enc_calls, enc_done>>
           ELSE IF sid \notin sessions
           THEN /\ return(Response(op, sid, 404))
                /\ UNCHANGED <<sessions, user_sessions, next_session, touched_at,
                               enc_calls, enc_done>>
           ELSE IF op = "ingest"
           THEN /\ pc' = [pc EXCEPT ![w] = after_lookup(w, "ingest")]
                /\ resp' = NoResp
                /\ UNCHANGED <<sessions, user_sessions, next_session, touched_at,
                               enc_calls, enc_done>>
           ELSE IF op = "query"
           THEN /\ pc' = [pc EXCEPT ![w] = after_lookup(w, "generate")]
                /\ resp' = NoResp
                /\ user_sessions' = [user_sessions EXCEPT ![sid] = touch(@, now)]
                /\ touched_at' = [touched_at EXCEPT ![sid] = now]
                /\ UNCHANGED <<sessions, next_session, enc_calls, enc_done>>
           ELSE \* delete_document
                /\ UNCHANGED <<sessions, next_session, enc_calls, enc_done>>
                /\ IF pc[w].doc_id \notin DocKeys(user_sessions[sid])
                   THEN /\ return([Response(op, sid, 404) EXCEPT !.doc_id = pc[w].doc_id])
                        /\ UNCHANGED <<user_sessions, touched_at>>
                   ELSE /\ return([Response(op, sid, 204) EXCEPT !.doc_id = pc[w].doc_id])
                        /\ user_sessions' = [user_sessions EXCEPT
                                                ![sid] = remove_doc(@, pc[w].doc_id, now)]
                        /\ touched_at' = [touched_at EXCEPT ![sid] = now]

\* the Embedder and the Generator have returned: the query answers from the
\* session object it looked up
query_return(w, q, tie, llm_ok) ==
    /\ pc[w].state = "generate"
    /\ resp' = query_response(pc[w].sid, user_sessions[pc[w].sid], q, NoDocIds, tie, llm_ok)
    /\ pc' = [pc EXCEPT ![w] = Idle]
    /\ UNCHANGED <<sessions, user_sessions, next_session, next_doc, now, stream,
                   touched_at, enc_calls, enc_done>>

\* ------------------------------------------------------- specifications
\* the requests a caller can send, drawn from the given input sets
IngestStartIn(ws, kinds) ==
    \E w \in ws, sid \in SessionIds :
        \E kind \in (IF sid \in sessions THEN kinds ELSE {"none"}) :
            ingest_start(w, sid, kind)

IngestFinishIn(lists) ==
    \E w \in Workers, outcome \in IngestOutcomes :
        \E chunks \in (IF outcome = "ok" THEN lists ELSE {<<1>>}),
           embed_ok \in (IF outcome = "ok" THEN BOOLEAN ELSE {TRUE}),
           index_ok \in (IF outcome = "ok" THEN BOOLEAN ELSE {TRUE}) :
            ingest_finish(w, outcome, chunks, embed_ok, index_ok)

QueryIn(qs, filters, ties) ==
    \E sid \in SessionIds :
        \E q \in (IF sid \in sessions THEN qs ELSE {1}),
           doc_ids \in (IF sid \in sessions THEN filters ELSE {NoDocIds}),
           tie \in (IF sid \in sessions THEN ties ELSE {"low"}),
           llm_ok \in (IF sid \in sessions THEN BOOLEAN ELSE {TRUE}) :
            query(sid, q, doc_ids, tie, llm_ok)

DeleteDocument ==
    \E sid \in SessionIds :
        \E doc_id \in (IF sid \in sessions
                        THEN DocKeys(user_sessions[sid]) \cup {MaxDocs + 1}
                        ELSE {1}) :
            delete_document(sid, doc_id)

IngestFinish == IngestFinishIn(ChunkLists)

SessionHealth == \E sid \in SessionIds : session_health_check(sid)

SessionStatus == \E sid \in SessionIds : get_session_status(sid)

SessionRefresh == \E sid \in SessionIds : refresh_session(sid)

QueryStreamIn(qs, filters, scripts) ==
    \E sid \in SessionIds :
        \E q \in (IF sid \in sessions THEN qs ELSE {1}),
           doc_ids \in (IF sid \in sessions THEN filters ELSE {NoDocIds}),
           script \in (IF sid \in sessions THEN scripts ELSE {<<>>}) :
            query_stream(sid, q, doc_ids, "low", script)

Next ==
    \/ Tick
    \/ clean_sessions_once
    \/ create_session
    \/ IngestStartIn({1}, IngestKinds)
    \/ IngestFinish
    \/ QueryIn(Queries, {NoDocIds, DocIdsGiven(<<1>>)}, TieOrders)
    \/ QueryStreamIn({1}, {NoDocIds}, {<<>>})
    \/ stream_step
    \/ stream_close
    \/ DeleteDocument

\* the application as it starts
Spec == Init /\ [][Next]_vars

\* ingests, queries and deletes on a session that carries an embedding
\* cache, with the clock standing still
NextIngest ==
    \/ IngestStartIn({1}, {"file"})
    \/ IngestFinish
    \/ QueryIn({1}, {NoDocIds}, TieOrders)
    \/ DeleteDocument

SpecIngest == InitCached /\ [][NextIngest]_vars

\* the cleanup task against requests in flight, on single-chunk uploads
NextSweep ==
    \/ Tick
    \/ clean_sessions_once
    \/ create_session
    \/ IngestStartIn({1}, {"file"})
    \/ IngestFinishIn({<<1>>})
    \/ QueryIn({1}, {NoDocIds}, {"low"})
    \/ DeleteDocument

SpecSweep == InitCached /\ [][NextSweep]_vars

\* sessions that are created, queried, asked for their health and swept
\* while the clock advances
NextHealth ==
    \/ Tick
    \/ clean_sessions_once
    \/ create_session
    \/ QueryIn({1}, {NoDocIds}, {"low"})
    \/ SessionHealth

SpecHealth == InitCached /\ [][NextHealth]_vars

\* ingests of every kind and outcome, two of them in flight at a time, and
\* document deletes on a session that carries an embedding cache
AtomicLists == {<<1>>, <<1, 2>>, <<2, 2>>}

NextAtomic ==
    \/ IngestStartIn(Workers, IngestKindsBoth)
    \/ IngestFinishIn(AtomicLists)
    \/ DeleteDocument

SpecAtomic == InitCached /\ [][NextAtomic]_vars

\* sessions that are created, asked for their status and health, refreshed
\* and swept while the clock advances
NextManage ==
    \/ Tick
    \/ clean_sessions_once
    \/ create_session
    \/ SessionHealth
    \/ SessionStatus
    \/ SessionRefresh

SpecManage == InitCached /\ [][NextManage]_vars

\* two registered sessions that carry an embedding cache, no document yet
InitIsolation ==
    /\ sessions = {1, 2}
    /\ user_sessions = <<MockUserSession(0), MockUserSession(0)>>
    /\ next_session = 3
    /\ next_doc = 1
    /\ now = 0
    /\ pc = [w \in Workers |-> Idle]
    /\ resp = NoResp
    /\ touched_at = <<0, 0>>
    /\ enc_calls = <<NoCalls, NoCalls>>
    /\ enc_done = <<NoCalls, NoCalls>>
    /\ stream = NoStream

\* ingests of one- and two-chunk uploads into either session, and queries of
\* either session, with and without a document id list
NextIsolation ==
    \/ IngestStartIn({1}, {"file"})
    \/ IngestFinishIn({<<1>>, <<2>>, <<2, 1>>})
    \/ QueryIn(Queries, {NoDocIds, DocIdsGiven(<<2, 1>>)}, {"low"})

SpecIsolation == InitIsolation /\ [][NextIsolation]_vars

\* a document longer than K_PER_DOC: a chunk list repeated to K_PER_DOC + 1 chunks
LongList(base) ==
    list([i \in 1..(K_PER_DOC + 1) |-> base[((i - 1) % Len(base)) + 1]])

\* the documents of the merge: the chunk lists of one or two chunks, and those
\* repeated to more than K_PER_DOC chunks
ShortLists == UNION {[1..n -> Texts] : n \in {1, 2}}

MergeLists == ShortLists \cup {LongList(base) : base \in ShortLists}

\* a session object after ingests of the given chunk lists, uploads and URLs
\* in turn, at time 0
RECURSIVE Ingested(_)
Ingested(lists) ==
    IF lists = <<>>
    THEN MockUserSession(0)
    ELSE LET n      == Len(lists)
             before == Ingested(SubSeq(lists, 1, n - 1))
             kind   == IF n % 2 = 1 THEN "file" ELSE "url"
             old    == before.embedding_cache
             uniq   == unique_new_chunks(lists[n], old)
             new    == new_embeddings_dict(uniq, encode(uniq))
             rag    == RAGSession_ingest(RAGSession(kind), lists[n],
                                         ordered_embeddings(lists[n], old, new))
         IN  add_doc([before EXCEPT !.embedding_cache = cache_update(old, new)], n, rag, 0)

\* one registered session that holds between one and MaxDocs documents
InitMerge ==
    \E n \in 1..MaxDocs :
        \E lists \in [1..n -> MergeLists] :
            /\ sessions = {1}
            /\ user_sessions = <<Ingested(lists)>>
            /\ next_session = 2
            /\ next_doc = n + 1
            /\ now = 0
            /\ pc = [w \in Workers |-> Idle]
            /\ resp = NoResp
            /\ touched_at = <<0>>
            /\ enc_calls = <<UNION {Range(lists[i]) : i \in 1..n}>>
            /\ enc_done = <<UNION {Range(lists[i]) : i \in 1..n}>>
            /\ stream = NoStream

\* the payloads of the merge: no list, an empty list, a list that reverses the
\* first two documents, and a list of an unknown id and the second document
MergeFilters ==
    {NoDocIds, DocIdsGiven(<<>>), DocIdsGiven(<<2, 1>>), DocIdsGiven(<<MaxDocs + 1, 2>>)}

\* one query against each session that holds documents, with and without a
\* document id list
QueryOnce ==
    /\ resp = NoResp
    /\ QueryIn(Queries, MergeFilters, TieOrders)

SpecMerge == InitMerge /\ [][QueryOnce]_vars

\* one registered session that holds a document of two chunks
InitStream ==
    /\ sessions = {1}
    /\ user_sessions = <<Ingested(<<<<1, 2>>>>)>>
    /\ next_session = 2
    /\ next_doc = 2
    /\ now = 0
    /\ pc = [w \in Workers |-> Idle]
    /\ resp = NoResp
    /\ touched_at = <<0>>
    /\ enc_calls = <<{1, 2}>>
    /\ enc_done = <<{1, 2}>>
    /\ stream = NoStream

\* streaming queries, with and without context, against every behaviour of
\* the model, and callers that read the response or abandon it
NextStream ==
    \/ QueryStreamIn({1}, {NoDocIds, DocIdsGiven(<<MaxDocs + 1>>)}, GenScripts)
    \/ stream_step
    \/ stream_close

SpecStream == InitStream /\ [][NextStream]_vars

\* queries with and without streaming, with and without a filter of unknown
\* ids, on a session whose one document can be deleted
AnswerScripts == {<<>>, <<"text">>, <<"raise">>, <<"empty", "text">>}

NextAnswer ==
    \/ QueryIn({1}, {NoDocIds, DocIdsGiven(<<MaxDocs + 1>>)}, {"low"})
    \/ QueryStreamIn({1}, {NoDocIds, DocIdsGiven(<<MaxDocs + 1>>)}, AnswerScripts)
    \/ stream_step
    \/ stream_close
    \/ DeleteDocument

SpecAnswer == InitStream /\ [][NextAnswer]_vars

\* queries of every kind and outcome while the clock advances, on a session
\* whose one document can be deleted
NextFrame ==
    \/ Tick
    \/ QueryIn({1}, {NoDocIds, DocIdsGiven(<<MaxDocs + 1>>)}, {"low"})
    \/ QueryStreamIn({1}, {NoDocIds}, {<<"text">>, <<"text", "raise">>})
    \/ stream_step
    \/ stream_close
    \/ DeleteDocument

SpecFrame == InitStream /\ [][NextFrame]_vars

\* one question asked in both modes, in either order, of a session that holds
\* a document, for every response of the model and with and without context
InitModes ==
    /\ sessions = {1}
    /\ user_sessions = <<Ingested(<<<<1, 2>>>>)>>
    /\ next_session = 2
    /\ next_doc = 2
    /\ now = 0
    /\ pc = [w \in Workers |-> Idle]
    /\ \E chunks \in ModelResponses,
          doc_ids \in {NoDocIds, DocIdsGiven(<<MaxDocs + 1>>)} :
           resp = [Response("modes", 1, 0) EXCEPT
                      !.args = [chunks |-> chunks, doc_ids |-> doc_ids],
                      !.result = NoModes]
    /\ touched_at = <<0>>
    /\ enc_calls = <<{1, 2}>>
    /\ enc_done = <<{1, 2}>>
    /\ stream = NoStream

NextModes ==
    \/ query_plain
    \/ query_streamed

SpecModes == InitModes /\ [][NextModes]_vars

\* ingests into one session that overlap in time: a request is taken up only
\* as long as the session has made no encode call, so an ingest that finishes
\* after an encode call was in flight when that call was made
OverlapStart ==
    /\ \A s \in DOMAIN enc_calls : enc_calls[s] = {}
    /\ IngestStartIn(Workers, {"file", "url"})

NextOverlap ==
    \/ OverlapStart
    \/ IngestFinishIn(AtomicLists)

SpecOverlap == InitCached /\ [][NextOverlap]_vars

\* the payloads that name a document more than once, next to one that names
\* each document once and one without a list
RepeatFilters ==
    {NoDocIds, DocIdsGiven(<<1, 2>>), DocIdsGiven(<<1, 1>>), DocIdsGiven(<<2, 1, 2>>)}

\* one query with each of these payloads against each session of the merge
QueryRepeated ==
    /\ resp = NoResp
    /\ QueryIn(Queries, RepeatFilters, TieOrders)

SpecRepeat == InitMerge /\ [][QueryRepeated]_vars

\* split_text on every text of SplitTexts and every max_chars up to MaxChars
InitSplit ==
    /\ sessions = {}
    /\ user_sessions = <<>>
    /\ next_session = 1
    /\ next_doc = 1
    /\ now = 0
    /\ pc = [w \in Workers |-> Idle]
    /\ \E text \in SplitTexts, max_chars \in 1..MaxChars :
           resp = [Response("call", 0, 0) EXCEPT
                      !.args = [text |-> text, max_chars |-> max_chars]]
    /\ touched_at = <<>>
    /\ enc_calls = <<>>
    /\ enc_done = <<>>
    /\ stream = NoStream

SplitText ==
    /\ resp.op = "call"
    /\ resp' = [resp EXCEPT !.op = "split_text",
                            !.result = split_text(resp.args.text, resp.args.max_chars)]
    /\ UNCHANGED <<sessions, user_sessions, next_session, next_doc, now, pc, stream,
                   touched_at, enc_calls, enc_done>>

SpecSplit == InitSplit /\ [][SplitText]_vars

\* RAGSession.ingest on a new RAGSession, for every list of chunks and every
\* array of vectors of up to MaxChunks rows, of equal length or not
EmbeddingLists == {encode(c) : c \in ChunkLists}

InitBuild ==
    /\ sessions = {}
    /\ user_sessions = <<>>
    /\ next_session = 1
    /\ next_doc = 1
    /\ now = 0
    /\ pc = [w \in Workers |-> Idle]
    /\ \E text_chunks \in ChunkLists \cup {<<>>}, embeddings \in EmbeddingLists \cup {<<>>} :
           resp = [Response("call", 0, 0) EXCEPT
                      !.args = [rag         |-> RAGSession("file"),
                                text_chunks |-> text_chunks,
                                embeddings  |-> embeddings]]
    /\ touched_at = <<>>
    /\ enc_calls = <<>>
    /\ enc_done = <<>>
    /\ stream = NoStream

\* the method has no raise statement and index.add takes any number of rows:
\* the call returns
BuildIndex ==
    /\ resp.op = "call"
    /\ resp' = [resp EXCEPT
                   !.op = "RAGSession.ingest",
                   !.result = [outcome |-> "returned",
                               rag     |-> RAGSession_ingest(resp.args.rag,
                                                             resp.args.text_chunks,
                                                             resp.args.embeddings)]]
    /\ UNCHANGED <<sessions, user_sessions, next_session, next_doc, now, pc, stream,
                   touched_at, enc_calls, enc_done>>

SpecBuild == InitBuild /\ [][BuildIndex]_vars

\* two workers, each a handler or the cleanup task, around the registry lock,
\* with the clock standing still
LockAcquire ==
    \E w \in Workers, op \in LockOps :
        \E sid \in (IF op \in {"create_session", "clean_sessions_once"}
                     THEN {0} ELSE SessionIds) :
            \E doc_id \in (IF op = "delete_document" THEN {1} ELSE {0}) :
                lock_acquire(w, op, sid, doc_id)

LockRelease == \E w \in Workers : lock_release(w)

QueryReturn == \E w \in Workers, llm_ok \in BOOLEAN : query_return(w, 1, "low", llm_ok)

\* the Embedder and the Generator are called without await: while a query is
\* inside them the event loop runs no other handler and not the cleanup task
LoopFree == \A v \in Workers : pc[v].state # "generate"

NextLock ==
    \/ LoopFree /\ LockAcquire
    \/ LoopFree /\ LockRelease
    \/ LoopFree /\ IngestFinishIn({<<1>>})
    \/ QueryReturn

SpecLock == InitCached /\ [][NextLock]_vars

\* cleanup_expired_sessions_task: one round of 'while True:
\* _clean_sessions_once(); await asyncio.sleep(...)'
cleanup_expired_sessions_task == clean_sessions_once

\* the cleanup task next to request traffic that creates sessions and touches
\* them.  The task is started once at startup and its loop has no exit, so a
\* round that has something to delete is not put off for ever.
NextLive ==
    \/ Tick
    \/ cleanup_expired_sessions_task
    \/ create_session
    \/ QueryIn({1}, {NoDocIds}, {"low"})

SpecLive == InitCached /\ [][NextLive]_vars /\ WF_vars(cleanup_expired_sessions_task)

\* ================================================================ claims
Docs(s) == user_sessions[s].docs

NoRepeats(seq) == \A i, j \in DOMAIN seq : i # j => seq[i] # seq[j]

\* ---------------------------------------------------------------- C1
\* C1: one run of _clean_sessions_once at time now removes from the registry
\* every session with now - last_accessed > SESSION_TIMEOUT_MINUTES and no other
\* session; every session it keeps is still there with its documents unchanged.
C1_SweepRemovesExactlyExpired ==
    [][resp'.op = "clean_sessions_once" =>
          /\ sessions' = {s \in sessions :
                             now - user_sessions[s].last_accessed <= SESSION_TIMEOUT_MINUTES}
          /\ resp'.removed = {s \in sessions :
                                 now - user_sessions[s].last_accessed > SESSION_TIMEOUT_MINUTES}
          /\ user_sessions' = user_sessions]_vars

\* a sweep has just removed a session and kept one that holds a document and
\* has been idle for exactly the timeout
C1_Witness ==
    /\ resp.op = "clean_sessions_once"
    /\ resp.removed # {}
    /\ \E s \in sessions :
          /\ Docs(s) # <<>>
          /\ now - user_sessions[s].last_accessed = SESSION_TIMEOUT_MINUTES

\* ---------------------------------------------------------------- C2
\* C2: whatever the interleaving of sweeps with queries, ingest completions and
\* document deletes, a session that a step removes from the registry was last
\* touched more than the timeout ago: a touch that took effect before the
\* deletion, within the timeout, keeps the session.
C2_SweepSparesTouched ==
    [][\A s \in sessions \ sessions' :
          now - touched_at[s] > SESSION_TIMEOUT_MINUTES]_vars

\* a sweep has just kept a session that is older than the timeout and was touched
\* by a request since, while it removed another
C2_Witness ==
    /\ resp.op = "clean_sessions_once"
    /\ resp.removed # {}
    /\ now > SESSION_TIMEOUT_MINUTES
    /\ \E s \in sessions : /\ touched_at[s] > 0
                           /\ now - touched_at[s] <= SESSION_TIMEOUT_MINUTES

C5_SessionOwnsCache ==
    [][/\ \A s \in sessions' : user_sessions'[s].has_embedding_cache
       /\ resp'.op \in {"ingest", "query", "delete_document"} =>
             \A s \in DOMAIN user_sessions :
                 s # resp'.sid => user_sessions'[s] = user_sessions[s]]_vars

\* ---------------------------------------------------------------- C6
\* C6: in every document, the vector at vector id i is the embedding of
\* chunks[i], for every i, whatever mix of cached, new and repeated texts the
\* batch held; no position is left without a vector.
C6_EmbeddingsAligned ==
    \A s \in DOMAIN user_sessions :
        \A d \in DOMAIN Docs(s) :
            LET rag == Docs(s)[d].rag
            IN  \A i \in DOMAIN rag.chunks :
                    /\ i \in DOMAIN rag.index
                    /\ rag.index[i] # NoneVec
                    /\ rag.index[i] = Embed(rag.chunks[i])

\* an ingest has just stored a batch that starts with a cached text, followed
\* by a new text twice, after one encode call for the new text alone
C6_Witness ==
    /\ resp.op = "ingest"
    /\ resp.status = 200
    /\ resp.encoded = <<2>>
    /\ get_doc(user_sessions[resp.sid], resp.doc_id).chunks = <<1, 2, 2>>

\* ---------------------------------------------------------------- C7
\* C7: in every reachable state the index of every document holds as many
\* vectors as the document holds chunks; no operation, a failing ingest
\* included, leaves a vector without a chunk or a chunk without a vector.
C7_IndexSizeIsChunkCount ==
    \A s \in DOMAIN user_sessions :
        \A d \in DOMAIN Docs(s) :
            /\ Len(Docs(s)[d].rag.index) = Len(Docs(s)[d].rag.chunks)
            /\ Docs(s)[d].rag.chunks # <<>>

\* an ingest has just failed after its encode call, on a session that holds a
\* document with a repeated chunk
C7_Witness ==
    /\ resp.op = "ingest"
    /\ resp.status = 500
    /\ resp.encode_called
    /\ \E d \in DOMAIN Docs(resp.sid) : ~NoRepeats(Docs(resp.sid)[d].rag.chunks)

\* ---------------------------------------------------------------- C8
\* position of an item in the concatenation of the per-document results
Enumerated(all, x) == CHOOSE p \in DOMAIN all : all[p] = x

\* C8: the sources of a query are in descending order of score, and two items
\* of equal score are in the order of the concatenation of the per-document
\* results: the document enumerated first comes first, and the items of one
\* document keep that document's result order.
C8_MergeOrder ==
    (resp.op = "query" /\ resp.status = 200) =>
        LET all == extend_all(resp.per_doc)
            src == resp.sources
        IN  \A i, j \in DOMAIN src :
                i < j =>
                    \/ ScoreGT(src[i].score, src[j].score)
                    \/ /\ ScoreEQ(src[i].score, src[j].score)
                       /\ Enumerated(all, src[i]) < Enumerated(all, src[j])

\* the sources hold two items of equal score from two documents, the second
\* document holding an item that scores strictly higher than one of the first
C8_Witness ==
    /\ resp.op = "query"
    /\ resp.status = 200
    /\ LET src == resp.sources
       IN  /\ \E i, j \in DOMAIN src :
                  /\ i < j
                  /\ src[i].doc_id < src[j].doc_id
                  /\ ScoreEQ(src[i].score, src[j].score)
           /\ \E i, j \in DOMAIN src :
                  /\ i < j
                  /\ src[i].doc_id > src[j].doc_id
                  /\ ScoreGT(src[i].score, src[j].score)

\* ---------------------------------------------------------------- C9
\* C9: the sources of a query are at most K_TOTAL items, as many as there are
\* when the documents return fewer, taken from the per-document results; no
\* per-document result that was left out scores strictly higher than a source;
\* each candidate document contributes at most K_PER_DOC results, its index
\* size when that is smaller.
C9_TopKTotal ==
    (resp.op = "query" /\ resp.status = 200) =>
        LET all   == extend_all(resp.per_doc)
            src   == resp.sources
            kept  == {Enumerated(all, src[i]) : i \in DOMAIN src}
        IN  /\ Len(src) <= K_TOTAL
            /\ Len(src) = Min(K_TOTAL, Len(all))
            /\ Range(src) \subseteq Range(all)
            /\ Cardinality(kept) = Len(src)
            /\ \A p \in DOMAIN all \ kept :
                   \A i \in DOMAIN src : ~ScoreGT(all[p].score, src[i].score)
            /\ \A d \in DOMAIN resp.per_doc :
                   LET res == resp.per_doc[d]
                   IN  /\ res # <<>>
                       /\ Len(res) <= K_PER_DOC
                       /\ Len(res) = Min(K_PER_DOC,
                                         Len(get_doc(user_sessions[resp.sid],
                                                     res[1].doc_id).index))

\* a query over two documents, one with more than K_PER_DOC chunks, has left
\* out results, one of them scoring strictly lower than a source
C9_Witness ==
    /\ resp.op = "query"
    /\ resp.status = 200
    /\ Len(resp.per_doc) = 2
    /\ LET all == extend_all(resp.per_doc)
           src == resp.sources
       IN  /\ Len(all) > K_TOTAL
           /\ Len(src) = K_TOTAL
           /\ \E d \in DOMAIN resp.per_doc :
                  /\ Len(resp.per_doc[d]) = K_PER_DOC
                  /\ Len(get_doc(user_sessions[resp.sid],
                                 resp.per_doc[d][1].doc_id).index) > K_PER_DOC
           /\ \E p \in DOMAIN all :
                  /\ all[p] \notin Range(src)
                  /\ ScoreGT(src[1].score, all[p].score)

\* ---------------------------------------------------------------- C10
\* the threshold of the claim's example, 0.5
MinScore == [num |-> 1, den |-> 2]

Candidates == [d \in DOMAIN resp.per_doc |-> resp.per_doc[d][1].doc_id]

\* the ids of a list that are documents of the session, in the list's order
ExistingOf(ids, s) == SelectSeq(ids, LAMBDA d : d \in DocKeys(user_sessions[s]))

AllDocIds(s) == [d \in DOMAIN Docs(s) |-> Docs(s)[d].doc_id]

TextsOf(s) == UNION {Range(Docs(s)[d].rag.chunks) : d \in DOMAIN Docs(s)}

\* C12: every source a query on a session returns names a document of that
\* session and carries a chunk text and the source name of that document; a
\* text that only another session's documents hold is never returned.
C12_SessionIsolation ==
    (resp.op = "query" /\ resp.sid \in DOMAIN user_sessions) =>
        \A i \in DOMAIN resp.sources :
            /\ \E d \in DOMAIN Docs(resp.sid) :
                  /\ Docs(resp.sid)[d].doc_id = resp.sources[i].doc_id
                  /\ resp.sources[i].text \in Range(Docs(resp.sid)[d].rag.chunks)
                  /\ resp.sources[i].source = Docs(resp.sid)[d].rag.source
            /\ resp.sources[i].text \in TextsOf(resp.sid)

\* a query on session 2, for a text that only session 1 holds and with a list
\* that names session 1's document too, has returned sources
C12_Witness ==
    /\ resp.op = "query"
    /\ resp.sid = 2
    /\ resp.sources # <<>>
    /\ resp.doc_ids = DocIdsGiven(<<2, 1>>)
    /\ DocKeys(user_sessions[1]) = {1}
    /\ DocKeys(user_sessions[2]) = {2}
    /\ TextsOf(1) = {1}
    /\ TextsOf(2) = {2}
    /\ resp.per_doc[1][1].score = Score(L2(Embed(2), Embed(1)))

\* ---------------------------------------------------------------- C13
\* the positions of the events of one type that the stream has sent
EventsOf(type) == {i \in DOMAIN stream.events : stream.events[i].type = type}

\* the chunks with text that the model yields before it raises, if it does
Generated ==
    {n \in DOMAIN stream.script :
        /\ stream.script[n] = "text"
        /\ \A k \in 1..n : stream.script[k] # "raise"}

\* C13: the events a streaming query has sent so far are in this order: one
\* sources event first; then the token increments, one per chunk with text
\* and in the order the model generated them; then one end event, last.  There
\* is no second sources event and no second end event, no event follows the
\* end event, and a response that was sent to its end carries every increment
\* generated and ends with the end event.
C13_StreamOrder ==
    LET ev == stream.events
    IN  /\ ev # <<>> => ev[1].type = "sources"
        /\ EventsOf("sources") \subseteq {1}
        /\ EventsOf("end") \subseteq {Len(ev)}
        /\ \A i, j \in EventsOf("token") : i < j => ev[i].token < ev[j].token
        /\ {ev[i].token : i \in EventsOf("token")} = {n \in Generated : n <= stream.pos}
        /\ stream.phase = "done" <=> EventsOf("end") # {}
        /\ stream.phase = "done" =>
              {ev[i].token : i \in EventsOf("token")} = Generated

\* a response was sent to its end with two increments between the sources
\* event and the end event, the model having yielded a chunk without text
C13_Witness ==
    /\ stream.phase = "done"
    /\ Len(stream.events) = 4
    /\ Cardinality(EventsOf("token")) = 2
    /\ \E n \in DOMAIN stream.script : stream.script[n] = "empty"

\* ---------------------------------------------------------------- C14
\* the model raises in this generation, at the call or at a later chunk
Raises == \E n \in DOMAIN stream.script : stream.script[n] = "raise"

\* C14: when the model fails during a streaming query, before the first
\* increment or after some, exactly one error event is sent; no token
\* increment follows it; the one event that follows it is the end event, with
\* which a response sent to its end finishes.  Without a failure no error
\* event is sent.
C14_StreamError ==
    LET ev == stream.events
    IN  /\ Cardinality(EventsOf("error")) <= 1
        /\ \A i \in EventsOf("error") :
              /\ \A j \in EventsOf("token") : j < i
              /\ i < Len(ev) => (i + 1 = Len(ev) /\ ev[i + 1].type = "end")
              /\ stream.script[stream.pos] = "raise"
        /\ ~Raises => EventsOf("error") = {}
        /\ (Raises /\ stream.phase = "done") =>
              /\ Cardinality(EventsOf("error")) = 1
              /\ EventsOf("error") = {Len(ev) - 1}

\* a response was sent to its end after the model raised in place of its
\* second chunk: sources, one increment, the error event, the end event
C14_Witness ==
    /\ stream.phase = "done"
    /\ stream.script = <<"text", "raise", "text">>
    /\ Len(stream.events) = 4
    /\ stream.events[3].type = "error"

\* ---------------------------------------------------------------- C15
\* C15: a query with stream off in which the model raises is answered with
\* 500, without an answer and without sources, after that one call of the
\* model; a query answered with 200 carries the model's answer, or the canned
\* answer when there was no context and the model was not called.
C15_GeneratorFailureIs500 ==
    resp.op = "query" =>
        /\ resp.generate = "raised" =>
              /\ resp.status = 500
              /\ resp.answer = "none"
              /\ resp.sources = <<>>
        /\ resp.status = 200 =>
              \/ resp.generate = "returned" /\ resp.answer = "llm"
              \/ /\ resp.generate = "not_called"
                 /\ resp.context = <<>>
                 /\ resp.answer = "No relevant information found."
        /\ resp.status = 500 => resp.generate = "raised"

\* a query over two documents found context, the model raised, and the
\* answer was 500
C15_Witness ==
    /\ resp.op = "query"
    /\ resp.status = 500
    /\ resp.generate = "raised"
    /\ Len(resp.per_doc) = 2
    /\ Len(resp.context) = K_TOTAL

\* ---------------------------------------------------------------- C16
\* the operations of a session that look the session up in the registry
SessionOps == {"ingest", "query", "query_stream", "delete_document"}

\* C16: an ingest, a query or a delete-document that arrives with a session id
\* that is not in the registry is answered 404 and changes nothing: the
\* registry, every session object (documents, cache, lastAccessed), the id
\* counters and the work in flight stay as they were.  (pc' = pc leaves out the
\* return of an ingest whose lookup was an earlier step.)
C16_UnknownSessionIs404 ==
    [][(resp'.op \in SessionOps /\ resp'.sid \notin sessions /\ pc' = pc)
          => /\ resp'.status = 404
             /\ UNCHANGED <<sessions, user_sessions, next_session, next_doc, now,
                            pc, stream, touched_at, enc_calls, enc_done>>]_vars

\* a delete-document was answered 404 for a session that was swept while it
\* held a document, and the document is still in the session object
C16_Witness ==
    /\ resp.op = "delete_document"
    /\ resp.status = 404
    /\ resp.sid \notin sessions
    /\ resp.sid \in DOMAIN user_sessions
    /\ DocKeys(user_sessions[resp.sid]) # {}

\* ---------------------------------------------------------------- C17
\* C17: a delete-document on a registered session, for a document the session
\* holds, answers 204, removes that document and no other (the others keep
\* their place and their content) and sets last_accessed to the time of the
\* call; for a document the session does not hold it answers 404 and leaves
\* the session object, documents and last_accessed, as it was.  No other
\* session changes either way.
C17_DeleteDocumentFrame ==
    [][(resp'.op = "delete_document" /\ resp'.sid \in sessions) =>
          LET sid    == resp'.sid
              doc_id == resp'.doc_id
              before == user_sessions[sid]
              after  == user_sessions'[sid]
          IN  /\ \A o \in DOMAIN user_sessions \ {sid} :
                     user_sessions'[o] = user_sessions[o]
              /\ DOMAIN user_sessions' = DOMAIN user_sessions
              /\ IF doc_id \in DocKeys(before)
                 THEN /\ resp'.status = 204
                      /\ after.docs = SelectSeq(before.docs,
                                                LAMBDA e : e.doc_id # doc_id)
                      /\ Len(after.docs) = Len(before.docs) - 1
                      /\ after.last_accessed = now
                      /\ after.embedding_cache = before.embedding_cache
                 ELSE /\ resp'.status = 404
                      /\ after = before]_vars

\* the second of two documents was deleted, after time had passed since the
\* session was last used: the first is still there and the session is touched
C17_Witness ==
    /\ resp.op = "delete_document"
    /\ resp.status = 204
    /\ resp.doc_id = 2
    /\ resp.sid \in sessions
    /\ DocKeys(user_sessions[resp.sid]) = {1}
    /\ now > 0
    /\ user_sessions[resp.sid].last_accessed = now

\* ---------------------------------------------------------------- C18
\* C18: no step makes the last_accessed of a session smaller than it was,
\* whatever the interleaving of queries, document deletes and sweeps with an
\* ingest in flight on the same session.  The clock of the model does not run
\* backwards.
C18_LastAccessedMonotone ==
    [][\A s \in DOMAIN user_sessions :
          user_sessions'[s].last_accessed >= user_sessions[s].last_accessed]_vars

\* a query has moved last_accessed forward while an ingest of the same session
\* was in flight
C18_Witness ==
    /\ resp.op = "query"
    /\ resp.status = 200
    /\ resp.sid \in sessions
    /\ now > 0
    /\ user_sessions[resp.sid].last_accessed = now
    /\ \E w \in Workers : pc[w].state = "ingest" /\ pc[w].sid = resp.sid

\* ---------------------------------------------------------------- C19
\* the answers that report success
Succeeded(r) ==
    \/ r.op \in {"create_session", "ingest", "query"} /\ r.status = 200
    \/ r.op = "delete_document" /\ r.status = 204

\* C19: a create, an ingest, a query or a document delete that succeeds sets
\* the session's last_accessed to the time of the call, and a sweep that runs
\* no later than the timeout after a session was last touched keeps the
\* session in the registry.
C19_SuccessTouches ==
    [][/\ Succeeded(resp') =>
              /\ user_sessions'[resp'.sid].last_accessed = now
              /\ touched_at'[resp'.sid] = now
       /\ resp'.op = "clean_sessions_once" =>
              \A s \in sessions :
                  now <= touched_at[s] + SESSION_TIMEOUT_MINUTES => s \in sessions']_vars

\* a sweep ran exactly the timeout after the last operation on a session that
\* holds a document, and kept the session
C19_Witness ==
    /\ resp.op = "clean_sessions_once"
    /\ \E s \in sessions :
          /\ DocKeys(user_sessions[s]) # {}
          /\ touched_at[s] > 0
          /\ user_sessions[s].last_accessed = touched_at[s]
          /\ now = touched_at[s] + SESSION_TIMEOUT_MINUTES

\* ---------------------------------------------------------------- C20
\* C20: session health answers 404 for an id that is not in the registry, 410
\* for a session that is in the registry and whose last_accessed is more than
\* the timeout ago, 200 for a session of the registry within the timeout, the
\* boundary included; the call changes neither the registry nor any session
\* object, last_accessed included.
C20_SessionHealth ==
    [][resp'.op = "session_health_check" =>
          LET sid == resp'.sid
          IN  /\ resp'.status =
                    IF sid \notin sessions THEN 404
                    ELSE IF now - user_sessions[sid].last_accessed
                               > SESSION_TIMEOUT_MINUTES THEN 410
                    ELSE 200
              /\ UNCHANGED <<sessions, user_sessions, next_session, next_doc, now,
                             pc, stream, touched_at, enc_calls, enc_done>>]_vars

\* health answered 410 for a session that is past the timeout and that no
\* sweep has removed yet, while another session of the registry is within it
C20_Witness ==
    /\ resp.op = "session_health_check"
    /\ resp.status = 410
    /\ resp.sid \in sessions
    /\ now - user_sessions[resp.sid].last_accessed > SESSION_TIMEOUT_MINUTES
    /\ \E o \in sessions :
          now - user_sessions[o].last_accessed <= SESSION_TIMEOUT_MINUTES

C22_Refresh ==
    [][/\ resp'.op = "refresh_session" =>
              LET sid == resp'.sid
              IN  IF sid \notin sessions
                  THEN /\ resp'.status = 404
                       /\ UNCHANGED <<sessions, user_sessions, touched_at>>
                  ELSE /\ resp'.status = 200
                       /\ user_sessions' =
                             [user_sessions EXCEPT ![sid].last_accessed = now]
                       /\ touched_at'[sid] = now
                       /\ UNCHANGED sessions
       /\ (resp.op = "refresh_session" /\ resp.status = 200 /\ resp'.sid = resp.sid)
              => /\ resp'.op = "get_session_status" => resp'.active
                 /\ resp'.op = "session_health_check" => resp'.status = 200
       /\ resp'.op = "clean_sessions_once" =>
              \A s \in sessions :
                  now - touched_at[s] <= SESSION_TIMEOUT_MINUTES => s \in sessions']_vars

\* a session that was past its timeout and not yet swept has been refreshed
C22_Witness ==
    /\ resp.op = "refresh_session"
    /\ resp.status = 200
    /\ resp.sid \in sessions
    /\ now - resp.last_before > SESSION_TIMEOUT_MINUTES
    /\ user_sessions[resp.sid].last_accessed = now

\* ---------------------------------------------------------------- C23
\* C23: create-session answers 200 with an id that was not in the registry,
\* registers under it a session with no documents and an empty embedding
\* cache, and leaves every session that was registered as it was.
C23_CreateSession ==
    [][resp'.op = "create_session" =>
          LET sid == resp'.sid
          IN  /\ resp'.status = 200
              /\ sid \notin sessions
              /\ sessions' = sessions \cup {sid}
              /\ user_sessions'[sid].docs = <<>>
              /\ user_sessions'[sid].has_embedding_cache
              /\ user_sessions'[sid].embedding_cache = EmptyCache
              /\ \A o \in sessions : user_sessions'[o] = user_sessions[o]]_vars

\* ---------------------------------------------------------------- C24
\* every document of every session object holds as many vectors as chunks
WholeIndexes(us) ==
    \A o \in DOMAIN us : \A i \in DOMAIN us[o].docs :
        /\ us[o].docs[i].rag.chunks # <<>>
        /\ Len(us[o].docs[i].rag.index) = Len(us[o].docs[i].rag.chunks)

\* C24: an ingest that does not answer 200, at whatever step it failed, leaves
\* the documents of its session and every other session object as they were;
\* an ingest that answers 200 appends one document under an id the session did
\* not hold, whose index holds all chunks of the batch, and leaves the
\* documents the session held in place and unchanged.  Either way no document
\* with fewer vectors than chunks is part of any session.
C24_IngestAllOrNothing ==
    [][resp'.op = "ingest" =>
          LET sid == resp'.sid
          IN  /\ WholeIndexes(user_sessions')
              /\ \A o \in DOMAIN user_sessions \ {sid} :
                     user_sessions'[o] = user_sessions[o]
              /\ DOMAIN user_sessions' = DOMAIN user_sessions
              /\ sid \in DOMAIN user_sessions =>
                    LET before == user_sessions[sid].docs
                        after  == user_sessions'[sid].docs
                    IN  IF resp'.status = 200
                        THEN /\ Len(after) = Len(before) + 1
                             /\ SubSeq(after, 1, Len(before)) = before
                             /\ after[Len(after)].doc_id = resp'.doc_id
                             /\ resp'.doc_id \notin DocKeys(user_sessions[sid])
                             /\ Len(after[Len(after)].rag.chunks) = resp'.num_chunks
                             /\ Len(after[Len(after)].rag.index) = resp'.num_chunks
                        ELSE after = before]_vars

\* an ingest failed at the index after the embedder had run: the session keeps
\* the document it had and no other, while its cache holds a text that no
\* document of the session holds
C24_Witness ==
    /\ resp.op = "ingest"
    /\ resp.status = 500
    /\ resp.encode_called
    /\ Len(user_sessions[resp.sid].docs) = 1
    /\ \E t \in DOMAIN user_sessions[resp.sid].embedding_cache :
          \A i \in DOMAIN user_sessions[resp.sid].docs :
              t \notin Range(user_sessions[resp.sid].docs[i].rag.chunks)

\* ---------------------------------------------------------------- C25
\* the events of a streamed answer without context
NoContextEvents == <<Event("sources", 0), Event("token", 1), Event("end", 0)>>

\* C25: a query on a registered session whose final context is empty is
\* answered 200 with no sources and the answer 'No relevant information
\* found.', and the model is not called.  With stream on, the response of such
\* a query carries no sources, the model is not called, and the events sent
\* are the sources event, one token event and the end event, in this order,
\* whatever the model would have done.
C25_EmptyContext ==
    /\ (resp.op = "query" /\ resp.status # 404 /\ resp.context = <<>>) =>
          /\ resp.status = 200
          /\ resp.sources = <<>>
          /\ resp.answer = "No relevant information found."
          /\ resp.generate = "not_called"
    /\ (stream.phase # "none" /\ stream.context = <<>>) =>
          /\ stream.sources = <<>>
          /\ stream.generate = "not_called"
          /\ Len(stream.events) <= 3
          /\ stream.events = SubSeq(NoContextEvents, 1, Len(stream.events))
          /\ stream.phase = "done" => stream.events = NoContextEvents

\* a streamed answer without context was sent to its end on a session that
\* holds a document: the filter named unknown ids only
C25_Witness ==
    /\ stream.phase = "done"
    /\ stream.context = <<>>
    /\ stream.events = NoContextEvents
    /\ DocKeys(user_sessions[stream.sid]) # {}

\* ---------------------------------------------------------------- C26
\* the text has no character that is not whitespace
Blank(text) == \A i \in DOMAIN text : text[i] \in Whitespace

\* C26: for every text and every max_chars, split_text returns chunks that are
\* each at most max_chars long and neither start nor end with whitespace; an
\* empty or blank text gives no chunk; a text that is not blank, has no
\* whitespace at its ends and is at most max_chars long gives one chunk, the
\* text itself.
C26_SplitText ==
    resp.op = "split_text" =>
        LET text      == resp.args.text
            max_chars == resp.args.max_chars
            chunks    == resp.result
        IN  /\ \A i \in DOMAIN chunks :
                  /\ Len(chunks[i]) <= max_chars
                  /\ chunks[i] # <<>>
                  /\ chunks[i][1] \notin Whitespace
                  /\ chunks[i][Len(chunks[i])] \notin Whitespace
            /\ Blank(text) => chunks = <<>>
            /\ (~Blank(text) /\ strip(text) = text /\ Len(text) <= max_chars)
                  => chunks = <<text>>

\* ---------------------------------------------------------------- C30
\* C30: RAGSession.ingest called with no chunks, or with a number of vectors
\* that differs from the number of chunks, does not return normally and
\* leaves the index and the chunk list as they were.
C30_BuildRejectsMismatch ==
    (/\ resp.op = "RAGSession.ingest"
     /\ \/ resp.args.text_chunks = <<>>
        \/ Len(resp.args.text_chunks) # Len(resp.args.embeddings))
        => /\ resp.result.outcome = "raised"
           /\ resp.result.rag = resp.args.rag

\* ---------------------------------------------------------------- C27
\* the handler has looked its session up and has not returned yet
InOperation(w) == pc[w].state \in {"ingest", "generate"}

\* C27: no two workers are at the same time inside an ingest, a query or a
\* document delete on the same session.
C27_SessionAccessSerialized ==
    \A w, v \in Workers :
        (w # v /\ InOperation(w) /\ InOperation(v)) => pc[w].sid # pc[v].sid

C29_EvictionLive ==
    \A s \in SessionIds :
        (s \in sessions /\ Expired(user_sessions[s], now))
            ~> (s \notin sessions \/ ~Expired(user_sessions[s], now))

\* a round of the cleanup task removed the session that was left alone and
\* kept the one that was created or touched in the meantime
C29_Witness ==
    /\ resp.op = "clean_sessions_once"
    /\ resp.removed = {1}
    /\ 2 \in sessions
    /\ touched_at[2] > 0
    /\ now = MaxTime

\* ---------------------------------------------------------------- C31
\* C31: a step of a query (the handler with stream off or on, whatever it
\* answers, and every event sent or abandoned afterwards) leaves the
\* registry, every other session object and, in the session asked, the
\* documents with their chunks and vectors and the embedding cache as they
\* were: it changes last_accessed of the session asked and nothing else.
C31_QueryFrame ==
    [][(resp'.op \in {"query", "query_stream"} \/ stream' # stream) =>
          /\ sessions' = sessions
          /\ DOMAIN user_sessions' = DOMAIN user_sessions
          /\ \A o \in DOMAIN user_sessions :
                 /\ user_sessions'[o] =
                        [user_sessions[o] EXCEPT
                            !.last_accessed = user_sessions'[o].last_accessed]
                 /\ o # resp'.sid => user_sessions'[o] = user_sessions[o]]_vars

\* a query has failed at the model after its touch: the session has the new
\* access time and holds its document and its cache
C31_Witness ==
    /\ resp.op = "query"
    /\ resp.status = 500
    /\ now > 0
    /\ user_sessions[resp.sid].last_accessed = now
    /\ user_sessions[resp.sid].docs # <<>>
    /\ DOMAIN user_sessions[resp.sid].embedding_cache # {}

C33_ExpiryAgreement ==
    /\ (resp.op = "get_session_status" /\ resp.sid \in sessions) =>
          (resp.active <=> ~Expired(user_sessions[resp.sid], now))
    /\ (resp.op = "session_health_check" /\ resp.sid \in sessions) =>
          (resp.status = 200 <=> ~Expired(user_sessions[resp.sid], now))

====
